---- MODULE Spec2Model ----
(***************************************************************************)
(* Model of the RepositoryMigrator of pweimann/repository-migration.       *)
(*                                                                         *)
(* The repository holds three near-duplicate variants of the class:        *)
(*   "export-users"  src/export-users.js  (validation, fail-fast, report   *)
(*                                         also written in the catch)      *)
(*   "migrate-repos" src/migrate-repos.js (no validation, no report)       *)
(*   "part_000"      src/unnamed/part_000 (validation, file import, no     *)
(*                                         fail-fast, no report on abort)  *)
(* One run of one variant is modelled; every action is the synchronous     *)
(* code that runs between two awaits (one remote response or one timer).   *)
(***************************************************************************)
EXTENDS Integers, Sequences, FiniteSets, TLC

\* ------------------------------------------------------------------ bounds
MaxOrgs == 2
MaxRepos == 3
\* at most this many transfer requests of one run fail
MaxFailures == 2
\* at most this many records in test-repos.json
MaxFileEntries == 2
\* the number of repositories of the one large organization
LargeOrgSize == 101

\* ------------------------------------------------------------- input sets
Variants == {"export-users", "migrate-repos", "part_000"}

\* Comma-separated segments of SOURCE_ORGS; "" is the segment of an empty string.
OrgSegments == {"", "A", "B"}
RepoNames == {"r1", "r2", "r3"}
TargetOrgValues == {"", "T"}

\* An environment variable is unset or holds a string; the string of
\* SOURCE_ORGS is kept as the sequence of its comma-separated segments.
Unset == [defined |-> FALSE]
EnvString(v) == [defined |-> TRUE, value |-> v]

RECURSIVE SeqsUpTo(_, _)
SeqsUpTo(S, n) ==
    IF n = 0 THEN {<<>>}
    ELSE LET shorter == SeqsUpTo(S, n - 1)
         IN  shorter \cup {Append(s, x) : s \in {t \in shorter : Len(t) = n - 1}, x \in S}

\* Organization names are interchangeable: "B" is only used after "A".
FirstUse(s) == \A i \in 1..Len(s) : s[i] = "B" => \E j \in 1..(i - 1) : s[j] = "A"

IsInjective(s) == \A i, j \in 1..Len(s) : s[i] = s[j] => i = j

\* What "GET /orgs/{org}/repos" can answer: the repositories of one
\* organization, each once, in the order the platform chooses.
Listings == {[i \in 1..Len(s) |-> [name |-> s[i]]] :
                s \in {t \in SeqsUpTo(RepoNames, MaxRepos) : IsInjective(t)}}

\* An organization holding more repositories than one page of a listing.
LargeOrg == [i \in 1..LargeOrgSize |-> [name |-> "r" \o ToString(i)]]

\* The repositories an organization can hold when it is listed.
OrgRepositories == Listings \cup {LargeOrg}

\* What a failed "POST /repos/{owner}/{repo}/transfer" raises: an HTTP error
\* carries a status, a transport error does not.
TransferErrors == {[message |-> "Validation Failed", status |-> 422],
                   [message |-> "socket hang up"]}

\* A url or sshUrl of a record of test-repos.json, by the pattern it matches:
\*   "https": /github\.com\/([^\/]+)\//  with the owner as its group 1
\*   "ssh":   /github\.com:([^\/]+)\//   with the owner as its group 1
\*   "other": neither (another host)
HttpsUrls == {[form |-> "https", owner |-> "A"], [form |-> "other"]}
SshUrls == {[form |-> "ssh", owner |-> "B"], [form |-> "other"]}

\* The records of test-repos.json: a name, and url and sshUrl, each optional.
FileEntries ==
    {[name |-> n] : n \in {"r1", "r2"}}
    \cup {[name |-> n, url |-> u] : n \in {"r1", "r2"}, u \in HttpsUrls}
    \cup {[name |-> n, sshUrl |-> u] : n \in {"r1", "r2"}, u \in SshUrls}
    \cup {[name |-> n, url |-> u, sshUrl |-> v] :
             n \in {"r1", "r2"}, u \in HttpsUrls, v \in SshUrls}

\* How the migrator comes to be constructed: by the main block of the script,
\* started with the command-line arguments argv, or by an importing module
\* that passes no dryRun option.
Imported == [main |-> FALSE]
Launches == {Imported} \cup {[main |-> TRUE, argv |-> a] : a \in {<<>>, <<"--execute">>}}

\* process.argv.includes(arg)
Includes(argv, arg) == \E i \in 1..Len(argv) : argv[i] = arg

\* options.dryRun as the constructor receives it:
\* main passes {dryRun: !process.argv.includes('--execute')}
MainOptions(l) ==
    IF ~l.main THEN "undefined"
    ELSE IF ~Includes(l.argv, "--execute") THEN "true" ELSE "false"

NoFile == [exists |-> FALSE]
\* test-repos.json: readable, and either JSON holding records or not JSON
RepoFiles ==
    {[exists |-> TRUE, json |-> FALSE]}
    \cup {[exists |-> TRUE, json |-> TRUE, entries |-> e] :
             e \in SeqsUpTo(FileEntries, MaxFileEntries)}

VARIABLES
    variant,        \* which of the three source files runs
    envTargetOrg,   \* process.env.TARGET_ORG
    envSourceOrgs,  \* process.env.SOURCE_ORGS
    launch,         \* who constructs the migrator, and process.argv
    optDryRun,      \* options.dryRun given to the constructor
    fileRepos,      \* test-repos.json in the working directory
    targetOrg, sourceOrgs, dryRun, stopOnFailure, results,  \* this.*
    pc,             \* the await the run is suspended at
    orgIdx, repos, repoIdx,   \* position of the loops over organizations and repositories
    calls,          \* every remote request and timer started, in order
    answers,        \* answers[k]: how calls[k] ended, once it has
    invocations,    \* the full name of every transferRepository invocation, in order
    clock,          \* new Date(): the number of steps taken so far
    reports,        \* the log file: every writeFileSync that succeeded, in order
    nGenerateReport,\* invocations of generateReport
    nWriteFailed,   \* writeFileSync calls that raised
    exitCode        \* the status of the process once pc = "exited"

vars == <<variant, envTargetOrg, envSourceOrgs, launch, optDryRun, fileRepos,
          targetOrg, sourceOrgs, dryRun, stopOnFailure, results,
          pc, orgIdx, repos, repoIdx, calls, answers, invocations, clock,
          reports, nGenerateReport, nWriteFailed, exitCode>>
cfgVars == <<variant, envTargetOrg, envSourceOrgs, launch, optDryRun, fileRepos>>
fieldVars == <<targetOrg, sourceOrgs, dryRun, stopOnFailure>>
loopVars == <<orgIdx, repos, repoIdx>>
endVars == <<reports, nGenerateReport, nWriteFailed, exitCode>>

\* this.results as the constructor builds it
EmptyResults == [successful |-> <<>>, failed |-> <<>>, skipped |-> <<>>,
                 summary |-> [computed |-> FALSE]]

Init ==
    /\ variant \in Variants
    /\ envTargetOrg \in {Unset} \cup {EnvString(t) : t \in TargetOrgValues}
    /\ envSourceOrgs \in {Unset} \cup
           {EnvString(s) : s \in {t \in SeqsUpTo(OrgSegments, MaxOrgs) \ {<<>>} :
                                    FirstUse(t)}}
    /\ launch \in Launches
    /\ optDryRun = MainOptions(launch)
    \* only part_000 looks for test-repos.json, and with the file present it
    \* never reads sourceOrgs
    /\ fileRepos \in {NoFile} \cup
           {f \in RepoFiles : variant = "part_000"
                              /\ envSourceOrgs \in {Unset, EnvString(<<"A">>)}}
    /\ targetOrg = ""
    /\ sourceOrgs = <<>>
    /\ dryRun = TRUE
    /\ stopOnFailure = FALSE
    /\ results = EmptyResults
    /\ pc = "start"
    /\ orgIdx = 0
    /\ repos = <<>>
    /\ repoIdx = 0
    /\ calls = <<>>
    /\ answers = <<>>
    /\ invocations = <<>>
    /\ clock = 0
    /\ reports = <<>>
    /\ nGenerateReport = 0
    /\ nWriteFailed = 0
    /\ exitCode = 0

\* ------------------------------------------------------- remote operations
GetUser == [op |-> "GET /user"]
GetOrg(org) == [op |-> "GET /orgs/{org}", org |-> org]
GetMembership(org) == [op |-> "GET /orgs/{org}/memberships/{username}", org |-> org]
ListRepos(org) == [op |-> "GET /orgs/{org}/repos", org |-> org, per_page |-> 100]
PostTransfer(owner, repo, newOwner) ==
    [op |-> "POST /repos/{owner}/{repo}/transfer",
     owner |-> owner, repo |-> repo, new_owner |-> newOwner]
Timer == [op |-> "setTimeout", ms |-> 1000]

IsTransfer(c) == c.op = "POST /repos/{owner}/{repo}/transfer"
IsListing(c) == c.op = "GET /orgs/{org}/repos"
IsDelay(c) == c.op = "setTimeout"
IsAuth(c) == c.op = "GET /user"
IsOrgLookup(c) == c.op = "GET /orgs/{org}"
IsMembership(c) == c.op = "GET /orgs/{org}/memberships/{username}"
Count(s, P(_)) == Cardinality({i \in 1..Len(s) : P(s[i])})


\* ------------------------------------------------------------ constructor
\* a test for undefined only, which lets the empty string pass
TargetOrgUndefined(env) == ~env.defined

\* !this.targetOrg: undefined and the empty string are both falsy
TargetOrgMissing(env) == ~env.defined \/ env.value = ""

\* process.env.SOURCE_ORGS?.split(',') || []
SplitSourceOrgs(env) == IF env.defined THEN env.value ELSE <<>>

\* a default of false for a missing option
DryRunOptionDefaultLive(opt) == IF opt # "undefined" THEN opt = "true" ELSE FALSE

\* options.dryRun !== undefined ? options.dryRun : true
DryRunOption(opt) == IF opt # "undefined" THEN opt = "true" ELSE TRUE

\* this.stopOnFailure = true; part_000 never sets the field (undefined is falsy)
StopOnFailureDefault == variant # "part_000"

\* new RepositoryMigrator(options); an error thrown here is caught by nobody
\* and ends the process with status 1.
Constructor ==
    /\ pc = "start"
    /\ clock' = clock + 1
    /\ IF TargetOrgMissing(envTargetOrg)
       THEN /\ pc' = "exited"
            /\ exitCode' = 1
            /\ UNCHANGED <<fieldVars, results>>
       ELSE /\ targetOrg' = envTargetOrg.value
            /\ sourceOrgs' = SplitSourceOrgs(envSourceOrgs)
            /\ dryRun' = DryRunOption(optDryRun)
            /\ stopOnFailure' = StopOnFailureDefault
            /\ results' = EmptyResults
            /\ pc' = "constructed"
            /\ exitCode' = exitCode
    /\ UNCHANGED <<cfgVars, loopVars, calls, answers, invocations,
                   reports, nGenerateReport, nWriteFailed>>

\* stopOnFailure is a public field of the exported class: a caller may assign
\* it between construction and run().
AssignStopOnFailure ==
    /\ pc = "constructed"
    /\ stopOnFailure' = ~stopOnFailure
    /\ UNCHANGED <<cfgVars, targetOrg, sourceOrgs, dryRun, results, pc, loopVars,
                   calls, answers, invocations, clock, endVars>>

\* --------------------------------------------------------- generateReport
\* the quotient without the factor 100
SuccessRateFraction(s, f) ==
    IF s + f = 0 THEN [nan |-> TRUE]
    ELSE [nan |-> FALSE, num |-> s, den |-> s + f]

\* successful / (successful + failed) * 100 in IEEE arithmetic: 0 / 0 is NaN;
\* any other quotient is kept exact, as numerator and denominator.
SuccessRate(s, f) ==
    IF s + f = 0 THEN [nan |-> TRUE]
    ELSE [nan |-> FALSE, num |-> s * 100, den |-> s + f]

Summary(res) ==
    [computed |-> TRUE,
     total |-> Len(res.successful) + Len(res.failed) + Len(res.skipped),
     successful |-> Len(res.successful),
     failed |-> Len(res.failed),
     skipped |-> Len(res.skipped),
     successRate |-> SuccessRate(Len(res.successful), Len(res.failed)),
     timestamp |-> clock,
     dryRun |-> dryRun]

\* this.results once generateReport has assigned the summary
Reported(res) == [res EXCEPT !.summary = Summary(res)]

\* JSON.stringify(this.results, null, 2), the text writeFileSync is given:
\* NaN is not a JSON number and is written as null.
JsonNull == [null |-> TRUE]
JsonStringify(res) ==
    IF res.summary.successRate.nan
    THEN [res EXCEPT !.summary.successRate = JsonNull]
    ELSE res

\* ------------------------------------------------------------ end of run()
\* The catch block of run(), entered with this.results = res after g
\* invocations of generateReport and f failed writes.  export-users calls
\* generateReport before process.exit(1); if its writeFileSync raises there,
\* run() rejects, nobody handles the rejection and Node 18 exits with 1.
RunCatchFrom(res, g, f) ==
    /\ pc' = "exited"
    /\ exitCode' = 1
    /\ IF variant = "export-users"
       THEN \E written \in BOOLEAN :
               /\ results' = Reported(res)
               /\ nGenerateReport' = g + 1
               /\ reports' = IF written THEN Append(reports, JsonStringify(Reported(res))) ELSE reports
               /\ nWriteFailed' = IF written THEN f ELSE f + 1
       ELSE /\ results' = res
            /\ nGenerateReport' = g
            /\ reports' = reports
            /\ nWriteFailed' = f

RunCatch(res) == RunCatchFrom(res, nGenerateReport, nWriteFailed)

\* The end of the try block of run(): generateReport (not in migrate-repos),
\* then the process ends with status 0 once nothing is pending.
RunComplete(res) ==
    IF variant = "migrate-repos"
    THEN /\ pc' = "exited"
         /\ exitCode' = 0
         /\ results' = res
         /\ UNCHANGED <<reports, nGenerateReport, nWriteFailed>>
    ELSE \E written \in BOOLEAN :
            IF written
            THEN /\ pc' = "exited"
                 /\ exitCode' = 0
                 /\ results' = Reported(res)
                 /\ reports' = Append(reports, JsonStringify(Reported(res)))
                 /\ nGenerateReport' = nGenerateReport + 1
                 /\ nWriteFailed' = nWriteFailed
            ELSE RunCatchFrom(Reported(res), nGenerateReport + 1, nWriteFailed + 1)

\* ------------------------------------------------------ transferRepository
FullName(org, repo) == org \o "/" \o repo.name

\* the dry-run outcome without its dryRun flag
DryRunOutcomeNoFlag(repo, org) ==
    [repo |-> FullName(org, repo), target |-> FullName(targetOrg, repo),
     timestamp |-> clock]

DryRunOutcome(repo, org) ==
    [repo |-> FullName(org, repo), target |-> FullName(targetOrg, repo),
     dryRun |-> TRUE, timestamp |-> clock]

SuccessOutcome(repo, org, status) ==
    [repo |-> FullName(org, repo), target |-> FullName(targetOrg, repo),
     timestamp |-> clock, response |-> status]

\* status: error.status is undefined for an error without one
FailedOutcome(repo, org, err) ==
    IF "status" \in DOMAIN err
    THEN [repo |-> FullName(org, repo), error |-> err.message,
          status |-> err.status, timestamp |-> clock]
    ELSE [repo |-> FullName(org, repo), error |-> err.message, timestamp |-> clock]

PushSuccessful(res, o) == [res EXCEPT !.successful = Append(@, o)]
PushFailed(res, o) == [res EXCEPT !.failed = Append(@, o)]

\* the loop body without its test of result.success
AfterTransferNoCheck(success, res) ==
    /\ results' = res
    /\ calls' = Append(calls, Timer)
    /\ pc' = "await_delay"
    /\ UNCHANGED endVars

\* The loop body once transferRepository has returned {success}:
\*   if (!result.success && !this.dryRun) throw ...   (not in part_000)
\*   await new Promise(resolve => setTimeout(resolve, 1000))
AfterTransfer(success, res) ==
    IF variant # "part_000" /\ ~success /\ ~dryRun
    THEN RunCatch(res) /\ calls' = calls
    ELSE /\ results' = res
         /\ calls' = Append(calls, Timer)
         /\ pc' = "await_delay"
         /\ UNCHANGED endVars

\* transferRepository without its dry-run branch
TransferRepositoryNoDryRun(repo, org, res) ==
    /\ invocations' = Append(invocations, FullName(org, repo))
    /\ results' = res
    /\ calls' = Append(calls, PostTransfer(org, repo.name, targetOrg))
    /\ pc' = "await_transfer"
    /\ UNCHANGED endVars

\* transferRepository(repo, org) up to its await: the dry-run branch records
\* and returns at once, the live branch sends the transfer request.
TransferRepository(repo, org, res) ==
    /\ invocations' = Append(invocations, FullName(org, repo))
    /\ IF dryRun
       THEN AfterTransfer(TRUE, PushSuccessful(res, DryRunOutcome(repo, org)))
       ELSE /\ results' = res
            /\ calls' = Append(calls, PostTransfer(org, repo.name, targetOrg))
            /\ pc' = "await_transfer"
            /\ UNCHANGED endVars

\* transferRepository after the request succeeded, and the return to the loop
TransferRepositoryOk(repo, org, status, res) ==
    AfterTransfer(TRUE, PushSuccessful(res, SuccessOutcome(repo, org, status)))

\* transferRepository's catch block without the push to the failed bucket
TransferRepositoryCatchNoPush(repo, org, err, res) ==
    IF variant # "part_000" /\ ~dryRun /\ stopOnFailure
    THEN RunCatch(res) /\ calls' = calls
    ELSE AfterTransfer(FALSE, res)

\* transferRepository's catch block, and the return to the loop:
\*   this.results.failed.push(...)
\*   if (!this.dryRun && this.stopOnFailure) throw ...   (not in part_000)
\*   return {success: false, error}
TransferRepositoryCatch(repo, org, err, res) ==
    IF variant # "part_000" /\ ~dryRun /\ stopOnFailure
    THEN RunCatch(PushFailed(res, FailedOutcome(repo, org, err))) /\ calls' = calls
    ELSE AfterTransfer(FALSE, PushFailed(res, FailedOutcome(repo, org, err)))

\* ------------------------------------------------ migrateFromOrganizations
\* The two for loops, from repository j of the listing rs of organization i
\* on, with this.results = res, up to the next await.
MigrateFromOrganizations(i, rs, j, res) ==
    IF j <= Len(rs)
    THEN /\ TransferRepository(rs[j], sourceOrgs[i], res)
         /\ orgIdx' = i
         /\ repos' = rs
         /\ repoIdx' = j
    ELSE IF i < Len(sourceOrgs)
    THEN /\ calls' = Append(calls, ListRepos(sourceOrgs[i + 1]))
         /\ pc' = "await_list"
         /\ orgIdx' = i + 1
         /\ repos' = <<>>
         /\ repoIdx' = 0
         /\ results' = res
         /\ UNCHANGED <<invocations, endVars>>
    ELSE /\ RunComplete(res)
         /\ orgIdx' = i
         /\ repos' = rs
         /\ repoIdx' = j
         /\ UNCHANGED <<calls, invocations>>

\* listRepositories without its try/catch: the error reaches the catch of run()
ListRepositoriesThrows(ok, data) ==
    IF ok
    THEN MigrateFromOrganizations(orgIdx, data, 1, results)
    ELSE RunCatch(results) /\ UNCHANGED <<calls, invocations, loopVars>>

Reverse(seq) == [i \in 1..Len(seq) |-> seq[Len(seq) + 1 - i]]

\* listRepositories handing the response data to the loop last entry first
ListRepositoriesReversed(ok, data) ==
    IF ok
    THEN MigrateFromOrganizations(orgIdx, Reverse(data), 1, results)
    ELSE MigrateFromOrganizations(orgIdx, <<>>, 1, results)

\* listRepositories once its request is answered: return response.data, or
\* [] from its catch block; the loop goes on with what it returned.
ListRepositories(ok, data) ==
    IF ok
    THEN MigrateFromOrganizations(orgIdx, data, 1, results)
    ELSE MigrateFromOrganizations(orgIdx, <<>>, 1, results)

\* --------------------------------------------------------- migrateFromFile
InFileMode == variant = "part_000" /\ fileRepos.exists

\* repo.url.match(/github\.com\/([^\/]+)\//) || repo.sshUrl.match(/github\.com:([^\/]+)\//)
\*   "TypeError": match is called on an undefined url or sshUrl
\*   "null":      neither pattern matches
\*   otherwise the match, whose group 1 is the owner
OrgMatch(repo) ==
    IF "url" \notin DOMAIN repo THEN [kind |-> "TypeError"]
    ELSE IF repo.url.form = "https" THEN [kind |-> "match", owner |-> repo.url.owner]
    ELSE IF "sshUrl" \notin DOMAIN repo THEN [kind |-> "TypeError"]
    ELSE IF repo.sshUrl.form = "ssh" THEN [kind |-> "match", owner |-> repo.sshUrl.owner]
    ELSE [kind |-> "null"]

\* The for loop of migrateFromFile from record j of rs on, up to the next
\* await.  An exception leaves the loop through the catch of migrateFromFile,
\* which logs it and returns to run().
RECURSIVE MigrateFile(_, _, _)
\* the for loop recording a record without owner in the skipped bucket
MigrateFileRecordsSkipped(rs, j, res) ==
    IF j > Len(rs) \/ OrgMatch(rs[j]).kind = "TypeError"
    THEN /\ RunComplete(res)
         /\ UNCHANGED <<calls, invocations, loopVars>>
    ELSE IF OrgMatch(rs[j]).kind = "null"
    THEN MigrateFile(rs, j + 1, [res EXCEPT !.skipped = Append(@, [repo |-> rs[j].name])])
    ELSE /\ TransferRepository(rs[j], OrgMatch(rs[j]).owner, res)
         /\ orgIdx' = orgIdx
         /\ repos' = rs
         /\ repoIdx' = j

MigrateFile(rs, j, res) ==
    IF j > Len(rs) \/ OrgMatch(rs[j]).kind = "TypeError"
    THEN /\ RunComplete(res)
         /\ UNCHANGED <<calls, invocations, loopVars>>
    ELSE IF OrgMatch(rs[j]).kind = "null"
    THEN MigrateFile(rs, j + 1, res)
    ELSE /\ TransferRepository(rs[j], OrgMatch(rs[j]).owner, res)
         /\ orgIdx' = orgIdx
         /\ repos' = rs
         /\ repoIdx' = j

\* migrateFromFile(filePath) up to its first await; JSON.parse raising is
\* caught like any other exception
MigrateFromFile ==
    IF fileRepos.json
    THEN MigrateFile(fileRepos.entries, 1, results)
    ELSE RunComplete(results) /\ UNCHANGED <<calls, invocations, loopVars>>

\* the organization the transfer in flight was started for
CurrentOrg == IF InFileMode THEN OrgMatch(repos[repoIdx]).owner ELSE sourceOrgs[orgIdx]

\* ---------------------------------------------------------------- answers
\* Page 1 of a listing with perPage entries a page.
FirstPage(all, perPage) ==
    SubSeq(all, 1, IF Len(all) < perPage THEN Len(all) ELSE perPage)

\* The large organization is explored where its repositories are processed
\* without branching: as the only source of a dry run.
LargeOrgExplored == dryRun /\ Len(sourceOrgs) = 1

\* The listing request of organization orgIdx answered.  No organization has
\* the empty name, so the request for "" can only fail.
\* The organization holds the repositories all; the request names no page,
\* so the platform answers with page 1: the first per_page of them.
ListResponse ==
    /\ pc = "await_list"
    /\ clock' = clock + 1
    /\ \E ok \in BOOLEAN, all \in OrgRepositories :
          /\ ok => sourceOrgs[orgIdx] # ""
          /\ ~ok => all = <<>>
          /\ Len(all) > MaxRepos => LargeOrgExplored
          /\ answers' = Append(answers,
                 [ok |-> ok, total |-> Len(all),
                  data |-> FirstPage(all, calls[Len(calls)].per_page)])
          /\ ListRepositories(ok, FirstPage(all, calls[Len(calls)].per_page))
    /\ UNCHANGED <<cfgVars, fieldVars>>

\* The transfer request of repository repoIdx answered: 202 Accepted, or an error.
TransferResponse ==
    /\ pc = "await_transfer"
    /\ clock' = clock + 1
    /\ \/ /\ answers' = Append(answers, [ok |-> TRUE, status |-> 202])
          /\ TransferRepositoryOk(repos[repoIdx], CurrentOrg, 202, results)
       \/ \E err \in TransferErrors :
             /\ Len(results.failed) < MaxFailures
             /\ answers' = Append(answers, [ok |-> FALSE, error |-> err])
             /\ TransferRepositoryCatch(repos[repoIdx], CurrentOrg, err, results)
    /\ UNCHANGED <<cfgVars, fieldVars, loopVars, invocations>>

\* the timer fired and the loop takes the same repository again
DelayDoneSameRepository ==
    /\ pc = "await_delay"
    /\ clock' = clock + 1
    /\ answers' = Append(answers, [ok |-> TRUE])
    /\ IF InFileMode
       THEN MigrateFile(repos, repoIdx, results)
       ELSE MigrateFromOrganizations(orgIdx, repos, repoIdx, results)
    /\ UNCHANGED <<cfgVars, fieldVars>>

\* The 1 s timer fired: the loop goes on with the next repository.
DelayDone ==
    /\ pc = "await_delay"
    /\ clock' = clock + 1
    /\ answers' = Append(answers, [ok |-> TRUE])
    /\ IF InFileMode
       THEN MigrateFile(repos, repoIdx + 1, results)
       ELSE MigrateFromOrganizations(orgIdx, repos, repoIdx + 1, results)
    /\ UNCHANGED <<cfgVars, fieldVars>>

\* ----------------------------------------------------------------- run()
\* run() after validateSetup returned: the choice of the repository source
\* (existsSync('test-repos.json') in part_000 only).
StartMigration ==
    IF InFileMode
    THEN MigrateFromFile
    ELSE IF Len(sourceOrgs) > 0
    THEN MigrateFromOrganizations(0, <<>>, 1, results)
    ELSE RunCatch(results) /\ UNCHANGED <<calls, invocations, loopVars>>

\* migrator.run() up to its first await: validateSetup's "GET /user";
\* migrate-repos has no validateSetup and starts the migration at once.
Run ==
    /\ pc = "constructed"
    /\ clock' = clock + 1
    /\ IF variant = "migrate-repos"
       THEN StartMigration
       ELSE /\ calls' = Append(calls, GetUser)
            /\ pc' = "await_auth"
            /\ UNCHANGED <<results, loopVars, invocations, endVars>>
    /\ UNCHANGED <<cfgVars, fieldVars, answers>>

\* validateSetup: "GET /user" answered; an error is rethrown
\* ("Authentication failed") and reaches the catch of run().
AuthResponse ==
    /\ pc = "await_auth"
    /\ clock' = clock + 1
    /\ \E ok \in BOOLEAN :
          /\ answers' = Append(answers, [ok |-> ok])
          /\ IF ok
             THEN /\ calls' = Append(calls, GetOrg(targetOrg))
                  /\ pc' = "await_org"
                  /\ UNCHANGED <<results, endVars>>
             ELSE RunCatch(results) /\ calls' = calls
    /\ UNCHANGED <<cfgVars, fieldVars, loopVars, invocations>>

\* validateSetup: "GET /orgs/{org}" answered; an error is rethrown.  Else the
\* membership request's username argument, a second "GET /user", is evaluated.
OrgResponse ==
    /\ pc = "await_org"
    /\ clock' = clock + 1
    /\ \E ok \in BOOLEAN :
          /\ answers' = Append(answers, [ok |-> ok])
          /\ IF ok
             THEN /\ calls' = Append(calls, GetUser)
                  /\ pc' = "await_login"
                  /\ UNCHANGED <<results, endVars>>
             ELSE RunCatch(results) /\ calls' = calls
    /\ UNCHANGED <<cfgVars, fieldVars, loopVars, invocations>>

\* validateSetup: the second "GET /user" answered; its failure is swallowed
\* by the catch of the permission check.
LoginResponse ==
    /\ pc = "await_login"
    /\ clock' = clock + 1
    /\ \E ok \in BOOLEAN :
          /\ answers' = Append(answers, [ok |-> ok])
          /\ IF ok
             THEN /\ calls' = Append(calls, GetMembership(targetOrg))
                  /\ pc' = "await_membership"
                  /\ UNCHANGED <<results, loopVars, invocations, endVars>>
             ELSE StartMigration
    /\ UNCHANGED <<cfgVars, fieldVars>>

\* the permission check with the role error thrown outside its try: a role
\* other than admin or owner reaches the catch of run()
MembershipResponseRoleFatal ==
    /\ pc = "await_membership"
    /\ clock' = clock + 1
    /\ \E role \in {"admin", "owner", "member", "error"} :
          /\ answers' = Append(answers, IF role = "error" THEN [ok |-> FALSE]
                                        ELSE [ok |-> TRUE, role |-> role])
          /\ IF role = "member"
             THEN RunCatch(results) /\ UNCHANGED <<calls, invocations, loopVars>>
             ELSE StartMigration
    /\ UNCHANGED <<cfgVars, fieldVars>>

\* the permission check without its try/catch: a failed membership request
\* reaches the catch of run()
MembershipResponseFatal ==
    /\ pc = "await_membership"
    /\ clock' = clock + 1
    /\ \E role \in {"admin", "owner", "member", "error"} :
          /\ answers' = Append(answers, IF role = "error" THEN [ok |-> FALSE]
                                        ELSE [ok |-> TRUE, role |-> role])
          /\ IF role = "error"
             THEN RunCatch(results) /\ UNCHANGED <<calls, invocations, loopVars>>
             ELSE StartMigration
    /\ UNCHANGED <<cfgVars, fieldVars>>

\* validateSetup: the membership request answered with a role, or failed;
\* the error thrown for a role other than admin/owner is swallowed by the
\* same catch, so validateSetup returns in every case.
MembershipResponse ==
    /\ pc = "await_membership"
    /\ clock' = clock + 1
    /\ \E role \in {"admin", "owner", "member", "error"} :
          /\ answers' = Append(answers, IF role = "error" THEN [ok |-> FALSE]
                                        ELSE [ok |-> TRUE, role |-> role])
          /\ StartMigration
    /\ UNCHANGED <<cfgVars, fieldVars>>

Next ==
    \/ Constructor
    \/ AssignStopOnFailure
    \/ Run
    \/ AuthResponse
    \/ OrgResponse
    \/ LoginResponse
    \/ MembershipResponse
    \/ ListResponse
    \/ TransferResponse
    \/ DelayDone

Spec == Init /\ [][Next]_vars

\* main constructs the migrator and calls run() at once, and every remote
\* request and every timer eventually returns; nothing obliges a caller to
\* assign stopOnFailure.
Fairness ==
    /\ WF_vars(Constructor)
    /\ WF_vars(Run)
    /\ WF_vars(AuthResponse)
    /\ WF_vars(OrgResponse)
    /\ WF_vars(LoginResponse)
    /\ WF_vars(MembershipResponse)
    /\ WF_vars(ListResponse)
    /\ WF_vars(TransferResponse)
    /\ WF_vars(DelayDone)

FairSpec == Spec /\ Fairness

\* ================================================================= claims
Constructed == pc # "start" /\ ~TargetOrgMissing(envTargetOrg)
DryMode == Constructed /\ dryRun
LiveMode == Constructed /\ ~dryRun
Exited == pc = "exited"
NumOutcomes == Len(results.successful) + Len(results.failed) + Len(results.skipped)

\* C1: in dry-run mode no ownership-transfer request is ever sent, whatever
\* the source organizations, the listings and stopOnFailure.
C1_DryRunSendsNoTransfer == DryMode => Count(calls, IsTransfer) = 0

\* a dry run with stop-on-failure set that processed three repositories and ended
C1_Witness ==
    /\ DryMode /\ Exited /\ stopOnFailure
    /\ Len(invocations) = 3
    /\ Len(results.successful) = 3

\* the number of repositories the listings answered so far returned
RECURSIVE NumListedUpTo(_)
NumListedUpTo(k) ==
    IF k = 0 THEN 0
    ELSE NumListedUpTo(k - 1) + (IF IsListing(calls[k]) THEN Len(answers[k].data) ELSE 0)
NumListed == NumListedUpTo(Len(answers))

\* C2: fail-fast.  In a live run with stopOnFailure set, once a transfer has
\* failed the run is over: the failed bucket holds that one outcome, every
\* earlier invocation is in successful, and the failing transfer request is
\* the last request or timer ever started.
C2_FailFast ==
    (LiveMode /\ stopOnFailure /\ Len(results.failed) > 0) =>
        /\ Exited
        /\ Len(results.failed) = 1
        /\ Len(results.successful) = Len(invocations) - 1
        /\ Len(answers) = Len(calls)
        /\ IsTransfer(calls[Len(calls)])
        /\ ~answers[Len(answers)].ok

\* C3: in a live run with stopOnFailure unset, a run in which a transfer
\* failed still ends normally: status 0, every configured organization
\* listed and every listed repository attempted.
C3_ContinueAfterFailure ==
    (LiveMode /\ ~stopOnFailure /\ Len(results.failed) > 0 /\ Exited /\ nWriteFailed = 0) =>
        /\ exitCode = 0
        /\ ~InFileMode => /\ Count(calls, IsListing) = Len(sourceOrgs)
                          /\ Len(invocations) = NumListed
                          /\ NumOutcomes = NumListed

\* C4: validation gate.  A listing request, a transfer request or a
\* transferRepository invocation only happens after the authentication check
\* and the lookup of the target organization both succeeded; after a failed
\* authentication check nothing else is requested, and after a failed
\* organization lookup nothing else either.
C4_ValidationGate ==
    /\ (Count(calls, IsListing) + Count(calls, IsTransfer) + Len(invocations) > 0) =>
           /\ Len(answers) >= 2
           /\ IsAuth(calls[1]) /\ answers[1].ok
           /\ IsOrgLookup(calls[2]) /\ answers[2].ok
    /\ (Len(answers) >= 1 /\ IsAuth(calls[1]) /\ ~answers[1].ok) =>
           Exited /\ Len(calls) = 1
    /\ (Len(answers) >= 2 /\ IsOrgLookup(calls[2]) /\ ~answers[2].ok) =>
           Exited /\ Len(calls) = 2

\* C5: when run() ends with a non-zero status (and no write of the log file
\* raised), the log file was written and holds the buckets as they are.
C5_ReportOnFatal ==
    (Exited /\ Constructed /\ exitCode # 0 /\ nWriteFailed = 0) =>
        /\ Len(reports) >= 1
        /\ reports[Len(reports)].summary.computed
        /\ reports[Len(reports)].successful = results.successful
        /\ reports[Len(reports)].failed = results.failed
        /\ reports[Len(reports)].skipped = results.skipped

\* C6: listing degradation.  A failed listing returns [] and does not end
\* the run: the next configured organization is listed next, or, after the
\* last one, the run ends normally; no repository is attempted that no
\* listing returned.  A run of organizations in which no transfer failed
\* lists every organization and records one outcome per listed repository.
C6_ListingDegradation ==
    (Constructed /\ ~InFileMode) =>
        /\ \A k \in 1..Len(answers) :
              (IsListing(calls[k]) /\ ~answers[k].ok) =>
                  /\ answers[k].data = <<>>
                  /\ \/ k < Len(calls) /\ IsListing(calls[k + 1])
                     \/ /\ k = Len(calls) /\ Exited
                        /\ Count(calls, IsListing) = Len(sourceOrgs)
                        /\ nWriteFailed = 0 => exitCode = 0
        /\ Len(invocations) <= NumListed
        /\ (Exited /\ Count(calls, IsListing) > 0 /\ results.failed = <<>>) =>
              /\ Count(calls, IsListing) = Len(sourceOrgs)
              /\ NumOutcomes = NumListed

\* the first organization's listing failed, the second returned three
\* repositories, and the run ended with exactly their three outcomes
C6_Witness ==
    /\ Constructed /\ ~InFileMode /\ Exited
    /\ sourceOrgs = <<"A", "B">>
    /\ Count(calls, IsListing) = 2
    /\ \E k \in 1..Len(answers) :
          /\ IsListing(calls[k]) /\ calls[k].org = "A" /\ ~answers[k].ok
          /\ \E m \in (k + 1)..Len(answers) :
                IsListing(calls[m]) /\ calls[m].org = "B" /\ Len(answers[m].data) = 3
    /\ NumOutcomes = 3
    /\ \A i \in 1..Len(results.successful) :
          results.successful[i].repo \in {"B/r1", "B/r2", "B/r3"}

\* C7: in dry-run mode every invocation yields a Successful outcome with
\* dryRun = true, nothing is ever in the failed bucket, and the scheduler
\* never aborts: a run that started listing lists every organization and
\* records an outcome for every repository listed, whatever stopOnFailure.
C7_DryRunAllSuccessful ==
    DryMode =>
        /\ results.failed = <<>>
        /\ Len(results.successful) = Len(invocations)
        /\ \A i \in 1..Len(results.successful) :
              /\ results.successful[i].repo = invocations[i]
              /\ "dryRun" \in DOMAIN results.successful[i]
              /\ results.successful[i].dryRun
        /\ ~InFileMode =>
              /\ pc = "await_list" => Len(results.successful) = NumListed
              /\ pc = "await_delay" =>
                    NumListed - Len(results.successful) = Len(repos) - repoIdx
              /\ (Exited /\ Count(calls, IsListing) > 0) =>
                    /\ Count(calls, IsListing) = Len(sourceOrgs)
                    /\ Len(results.successful) = NumListed
                    /\ nWriteFailed = 0 => exitCode = 0

\* a dry run over two organizations, two repositories each, all four recorded
C7_Witness ==
    /\ DryMode /\ Exited /\ ~InFileMode
    /\ Len(sourceOrgs) = 2
    /\ NumListed = 4
    /\ Len(results.successful) = 4
    /\ exitCode = 0

\* C8: every invocation of transferRepository that has returned or thrown
\* has appended exactly one outcome: the buckets together hold one outcome
\* per invocation, less the one invocation still waiting for its answer.
C8_OneOutcomePerInvocation ==
    NumOutcomes = Len(invocations) - (IF pc = "await_transfer" THEN 1 ELSE 0)

\* a live run aborted by fail-fast after two successes and one failure
C8_Witness ==
    /\ LiveMode /\ Exited /\ stopOnFailure
    /\ variant = "export-users"
    /\ Len(invocations) = 3
    /\ Len(results.successful) = 2
    /\ Len(results.failed) = 1

RepoNamesOf(bucket) == {bucket[i].repo : i \in 1..Len(bucket)}

\* C9: no repository full name is in more than one bucket.
C9_BucketsDisjoint ==
    /\ RepoNamesOf(results.successful) \cap RepoNamesOf(results.failed) = {}
    /\ RepoNamesOf(results.successful) \cap RepoNamesOf(results.skipped) = {}
    /\ RepoNamesOf(results.failed) \cap RepoNamesOf(results.skipped) = {}

\* the fatal conditions of a run
ValidationFailed ==
    \E k \in 1..Len(answers) :
        k <= 2 /\ (IsAuth(calls[k]) \/ IsOrgLookup(calls[k])) /\ ~answers[k].ok
NoSourceConfigured == Constructed /\ ~InFileMode /\ Len(sourceOrgs) = 0
FailFastTriggered == LiveMode /\ stopOnFailure /\ Len(results.failed) > 0
Fatal ==
    \/ TargetOrgMissing(envTargetOrg)
    \/ ValidationFailed
    \/ NoSourceConfigured
    \/ FailFastTriggered

\* C10: the process ends with status 0 exactly when no fatal condition
\* occurred (no write of the log file having raised).
C10_ExitStatus ==
    (Exited /\ nWriteFailed = 0) => (exitCode = 0 <=> ~Fatal)

\* the step run() takes once validateSetup has returned, seen from request k,
\* the last one of validateSetup: the first configured organization is listed
\* next; with test-repos.json present the file is imported instead (a
\* transfer request, a timer, or the normal end of the run); without any
\* source the run ends with "No source organizations specified".
ProceedsToDiscovery(k) ==
    IF InFileMode
    THEN \/ k < Len(calls) /\ (IsTransfer(calls[k + 1]) \/ IsDelay(calls[k + 1]))
         \/ k = Len(calls) /\ Exited /\ (nWriteFailed = 0 => exitCode = 0)
    ELSE IF Len(sourceOrgs) > 0
    THEN k < Len(calls) /\ IsListing(calls[k + 1]) /\ calls[k + 1].org = sourceOrgs[1]
    ELSE k = Len(calls) /\ Exited /\ results.failed = <<>>

\* C11: the permission check of validateSetup is never fatal.  When the
\* membership request fails, or the "GET /user" that supplies its username
\* fails, validateSetup returns and the run proceeds to discovery.
C11_MembershipNeverFatal ==
    \A k \in 1..Len(answers) :
        (~answers[k].ok /\ (IsMembership(calls[k]) \/ (IsAuth(calls[k]) /\ k > 1))) =>
            ProceedsToDiscovery(k)

\* the membership request failed, and the run went on to list an
\* organization, processed its two repositories and ended normally
C11_Witness ==
    /\ Exited /\ exitCode = 0 /\ ~InFileMode
    /\ \E k \in 1..Len(answers) : IsMembership(calls[k]) /\ ~answers[k].ok
    /\ Len(invocations) = 2
    /\ NumOutcomes = 2

\* C12: listRepositories returns every repository the organization holds,
\* whatever their number: what a successful listing returned to the loop is
\* as long as the organization's repository collection.
C12_ListsEveryRepository ==
    \A k \in 1..Len(answers) :
        (IsListing(calls[k]) /\ answers[k].ok) => Len(answers[k].data) = answers[k].total

\* C13: with TARGET_ORG unset or empty the constructor throws: the process
\* ends with status 1 without any remote request or timer, without any
\* transferRepository invocation, with no outcome recorded and no report.
C13_MissingTargetOrgFatal ==
    (pc # "start" /\ (~envTargetOrg.defined \/ envTargetOrg.value = "")) =>
        /\ Exited /\ exitCode = 1
        /\ calls = <<>>
        /\ invocations = <<>>
        /\ results = EmptyResults
        /\ reports = <<>> /\ nGenerateReport = 0

\* TARGET_ORG set to the empty string, source organizations configured,
\* and the process over
C13_Witness ==
    /\ envTargetOrg.defined /\ envTargetOrg.value = ""
    /\ envSourceOrgs.defined /\ envSourceOrgs.value = <<"A", "B">>
    /\ Exited /\ exitCode = 1

ExecuteSwitchGiven == launch.main /\ Includes(launch.argv, "--execute")

\* C14: the run is live only when the script was started with --execute.
\* Started without it, or constructed without a dryRun option, the migrator
\* has dryRun = true, and a transfer request is only ever sent in a run
\* started with the switch.
C14_LiveOnlyWithExecute ==
    /\ (Constructed /\ ~ExecuteSwitchGiven) => dryRun
    /\ (Constructed /\ ExecuteSwitchGiven) => ~dryRun
    /\ Count(calls, IsTransfer) > 0 => ExecuteSwitchGiven

\* a run started without arguments that processed two repositories as a dry
\* run and ended
C14_Witness ==
    /\ launch.main /\ launch.argv = <<>>
    /\ Constructed /\ dryRun /\ Exited
    /\ Len(invocations) = 2
    /\ Len(results.successful) = 2
    /\ Count(calls, IsTransfer) = 0

\* C15: the report is finalized exactly once per run: when run() has ended,
\* normally or by an abort, generateReport was invoked once.
C15_ReportExactlyOnce ==
    (Exited /\ Constructed) => nGenerateReport = 1

\* the timers that have fired
NumDelaysDone == Cardinality({k \in 1..Len(answers) : IsDelay(calls[k])})

\* C16: after every invocation of transferRepository, whatever its outcome,
\* the 1000 ms timer is started before anything else: one timer per recorded
\* outcome (less the one failure that fail-fast stopped the run at), a timer
\* right after every answered transfer request that is not the last request,
\* and every invocation but the first only after the previous timer fired.
C16_DelayAfterEveryInvocation ==
    /\ \A k \in 1..Len(calls) : IsDelay(calls[k]) => calls[k].ms = 1000
    /\ Count(calls, IsDelay) <= NumOutcomes
    /\ Count(calls, IsDelay) >= NumOutcomes - (IF FailFastTriggered THEN 1 ELSE 0)
    /\ \A k \in 1..Len(answers) :
          (IsTransfer(calls[k]) /\ k < Len(calls)) => IsDelay(calls[k + 1])
    /\ NumDelaysDone >= Len(invocations) - 1

\* the full names of the repositories the answered listings returned, in
\* the order of the listings and, within one, in the order of its data
RECURSIVE DiscoveryOrderUpTo(_)
DiscoveryOrderUpTo(k) ==
    IF k = 0 THEN <<>>
    ELSE IF IsListing(calls[k])
    THEN DiscoveryOrderUpTo(k - 1) \o
         [j \in 1..Len(answers[k].data) |-> FullName(calls[k].org, answers[k].data[j])]
    ELSE DiscoveryOrderUpTo(k - 1)
DiscoveryOrder == DiscoveryOrderUpTo(Len(answers))

\* the listing requests sent so far, in order
ListingCalls == SelectSeq(calls, IsListing)

\* the outcomes of successful from index i on and of failed from index j on,
\* merged by their timestamps (each bucket is in the order of its pushes)
RECURSIVE MergeByTime(_, _)
MergeByTime(i, j) ==
    IF i > Len(results.successful)
    THEN [n \in 1..(Len(results.failed) + 1 - j) |-> results.failed[j + n - 1]]
    ELSE IF j > Len(results.failed)
    THEN [n \in 1..(Len(results.successful) + 1 - i) |-> results.successful[i + n - 1]]
    ELSE IF results.successful[i].timestamp <= results.failed[j].timestamp
    THEN <<results.successful[i]>> \o MergeByTime(i + 1, j)
    ELSE <<results.failed[j]>> \o MergeByTime(i, j + 1)

\* the full names of the recorded outcomes, successful and failed merged by
\* their timestamps
OutcomesByTime ==
    LET merged == MergeByTime(1, 1)
    IN  [n \in 1..Len(merged) |-> merged[n].repo]

\* no two outcomes were recorded at the same time
TimestampsDistinct ==
    LET merged == MergeByTime(1, 1)
    IN  \A n \in 1..(Len(merged) - 1) : merged[n].timestamp < merged[n + 1].timestamp

IsPrefix(s, t) == Len(s) <= Len(t) /\ s = SubSeq(t, 1, Len(s))

\* C17: repositories are processed in discovery order.  The organizations
\* are listed in configured order; the invocations, and the recorded
\* outcomes merged by time, are a prefix of the repositories listed so far
\* in listing order; and while an organization is being listed every
\* repository listed before has its outcome.
C17_DiscoveryOrder ==
    (Constructed /\ ~InFileMode) =>
        /\ Len(ListingCalls) <= Len(sourceOrgs)
        /\ \A i \in 1..Len(ListingCalls) : ListingCalls[i].org = sourceOrgs[i]
        /\ IsPrefix(invocations, DiscoveryOrder)
        /\ TimestampsDistinct
        /\ IsPrefix(OutcomesByTime, invocations)
        /\ pc = "await_list" =>
              /\ invocations = DiscoveryOrder
              /\ OutcomesByTime = DiscoveryOrder

\* a live run over A, listed as r2, r1, and B, listed as r3: A/r2 and B/r3
\* transferred, A/r1 failed, the run ended
C17_Witness ==
    /\ LiveMode /\ ~InFileMode /\ Exited
    /\ sourceOrgs = <<"A", "B">>
    /\ invocations = <<"A/r2", "A/r1", "B/r3">>
    /\ OutcomesByTime = invocations
    /\ Len(results.failed) = 1
    /\ results.failed[1].repo = "A/r1"

\* the full names of the records of rs, from record j on, that an owner
\* segment is extracted from
RECURSIVE OwnedEntriesFrom(_, _)
OwnedEntriesFrom(rs, j) ==
    IF j > Len(rs) THEN <<>>
    ELSE IF OrgMatch(rs[j]).kind = "match"
    THEN <<FullName(OrgMatch(rs[j]).owner, rs[j])>> \o OwnedEntriesFrom(rs, j + 1)
    ELSE OwnedEntriesFrom(rs, j + 1)

\* C18: in the file import a record without an extractable owner (no pattern
\* matches, or url or sshUrl is missing) is skipped and recorded nowhere,
\* and the records after it are still processed: when the run has ended,
\* exactly the records with an owner were handed to transferRepository, in
\* the order of the file.
C18_FileEntrySkipped ==
    (InFileMode /\ fileRepos.json /\ Constructed /\ Exited /\ ~ValidationFailed) =>
        /\ invocations = OwnedEntriesFrom(fileRepos.entries, 1)
        /\ NumOutcomes = Len(invocations)
        /\ results.skipped = <<>>

\* the summary of res counts the buckets of res, and its successRate is the
\* percentage of successful among successful and failed
SummaryMatches(res) ==
    LET sm == res.summary
        ns == Len(res.successful)
        nf == Len(res.failed)
    IN  /\ sm.total = ns + nf + Len(res.skipped)
        /\ sm.successful = ns
        /\ sm.failed = nf
        /\ sm.skipped = Len(res.skipped)
        /\ ns + nf > 0 =>
              /\ ~sm.successRate.nan
              /\ sm.successRate.num * (ns + nf) = 100 * ns * sm.successRate.den
        /\ (ns > 0 /\ nf = 0) => sm.successRate.num = 100 * sm.successRate.den

\* C19: a finalized summary is derived from the buckets as they are at
\* finalization, in this.results and in every log file written.
C19_SummaryFromBuckets ==
    /\ results.summary.computed => SummaryMatches(results)
    /\ \A n \in 1..Len(reports) :
          /\ reports[n].summary.computed
          /\ SummaryMatches(reports[n])

\* a report written with two successful and no failed outcome: rate 100
C19_Witness ==
    /\ Exited /\ exitCode = 0
    /\ Len(reports) = 1
    /\ reports[1].summary.successful = 2
    /\ reports[1].summary.failed = 0
    /\ reports[1].summary.total = 2
    /\ reports[1].summary.successRate = [nan |-> FALSE, num |-> 200, den |-> 2]

\* C20: a summary finalized with no successful and no failed outcome holds
\* a defined successRate: the summary generateReport leaves in this.results
\* never holds the NaN of 0 / 0.
C20_SuccessRateDefined ==
    results.summary.computed => ~results.summary.successRate.nan

\* the fields every outcome is to carry
CommonOutcomeFields == {"repo", "target", "timestamp", "dryRun"}

\* C21: every recorded outcome, successful or failed, carries repo, target,
\* timestamp and a dryRun flag, its repo being the full name of the
\* invocation it records; a failed outcome carries the error message too.
C21_OutcomeFields ==
    LET merged == MergeByTime(1, 1)
    IN  /\ \A n \in 1..Len(merged) :
              /\ CommonOutcomeFields \subseteq DOMAIN merged[n]
              /\ merged[n].repo = invocations[n]
        /\ \A i \in 1..Len(results.failed) : "error" \in DOMAIN results.failed[i]

C23_NonAdminRoleNotFatal ==
    \A k \in 1..Len(answers) :
        (IsMembership(calls[k]) /\ answers[k].ok) =>
            /\ answers[k].role \in {"admin", "owner", "member"}
            /\ ProceedsToDiscovery(k)

\* the membership request answered "member", and the run went on to list
\* an organization, transferred its two repositories live and ended normally
C23_Witness ==
    /\ \E k \in 1..Len(answers) :
          IsMembership(calls[k]) /\ answers[k].ok /\ answers[k].role = "member"
    /\ LiveMode /\ ~InFileMode /\ Exited /\ exitCode = 0
    /\ Len(invocations) = 2
    /\ Len(results.successful) = 2

\* C24: nothing is ever appended to the skipped bucket: it is empty in
\* every state, and a finalized summary, in this.results and in the log
\* file, has skipped = 0 and total = |successful| + |failed|.
C24_SkippedAlwaysEmpty ==
    /\ results.skipped = <<>>
    /\ results.summary.computed =>
          /\ results.summary.skipped = 0
          /\ results.summary.total = Len(results.successful) + Len(results.failed)
    /\ \A n \in 1..Len(reports) :
          /\ reports[n].skipped = <<>>
          /\ reports[n].summary.total =
                 Len(reports[n].successful) + Len(reports[n].failed)

\* a file import of two records, the first with url and sshUrl of another
\* host and passed over, the second processed, and the report written
C24_Witness ==
    /\ InFileMode /\ fileRepos.json /\ Exited /\ exitCode = 0
    /\ Len(fileRepos.entries) = 2
    /\ OrgMatch(fileRepos.entries[1]).kind = "null"
    /\ Len(invocations) = 1
    /\ Len(reports) = 1
    /\ reports[1].summary.total = 1

\* SOURCE_ORGS is unset or the empty string
SourceOrgsEmpty == ~envSourceOrgs.defined \/ envSourceOrgs.value = <<"">>

\* C25: with no source organization configured and no repository file, the
\* run never sends a listing or transfer request and records no outcome, it
\* starts with the setup validation, and it ends with a non-zero status.
C25_NoSourceFatal ==
    (Constructed /\ ~InFileMode /\ SourceOrgsEmpty) =>
        /\ Count(calls, IsListing) = 0
        /\ Count(calls, IsTransfer) = 0
        /\ invocations = <<>>
        /\ NumOutcomes = 0
        /\ Len(calls) >= 1 => IsAuth(calls[1])
        /\ Exited => (exitCode # 0 /\ Len(calls) >= 1)

\* the repositories discovered so far: those the listings returned, or the
\* records of the repository file
NumDiscovered ==
    IF InFileMode
    THEN (IF fileRepos.json THEN Len(fileRepos.entries) ELSE 0)
    ELSE NumListed

\* C26: when every remote request and every timer eventually returns,
\* run() eventually ends, normally or by an abort, and at no time has
\* transferRepository been invoked more often than repositories were
\* discovered.
C26_Terminates ==
    /\ [](Len(invocations) <= NumDiscovered)
    /\ <>Exited

\* a live run over two organizations of three repositories each that
\* invoked transferRepository six times and ended normally
C26_Witness ==
    /\ LiveMode /\ ~InFileMode /\ Exited /\ exitCode = 0
    /\ Len(sourceOrgs) = 2
    /\ NumListed = 6
    /\ Len(invocations) = 6

====
